---- MODULE Spec2Model ----
(***************************************************************************)
(* Aura Music sync backend: the room-state reducer (backend/app/state.py), *)
(* the per-room hub (backend/app/ws.py) and the handlers that drive them   *)
(* (backend/app/main.py), for ONE room id.                                 *)
(*                                                                         *)
(* Conventions                                                             *)
(*  - Python None is the string None; identifiers (song ids, client ids,   *)
(*    user ids) are strings, so that None compares with them.              *)
(*  - A song dict is modelled by the value of song.get("id"): the other    *)
(*    whitelisted fields are copied through unchanged by _sanitize_song    *)
(*    and never read by the reducer.  A song without an "id" key is None.  *)
(*  - Timestamps and positions are whole seconds, so the source's          *)
(*    (at - updated_at) / 1000.0 is the plain difference.                  *)
(*  - A numeric payload field is a tagged value: absent, a number, or a    *)
(*    value of the wrong kind (a non-numeric string) on which int()/float()*)
(*    raise.                                                               *)
(*  - Scheduling is asyncio's: a task runs without interruption from one   *)
(*    suspension point to the next.  sqlite3 calls are synchronous, and    *)
(*    get_current_user_optional / get_current_user_from_ws contain no      *)
(*    suspension point, so awaiting them does not yield to other tasks.    *)
(***************************************************************************)
EXTENDS Integers, Sequences, FiniteSets, TLC

VARIABLES
  db,        \* the rooms row of this room: [present, revision, state]
  now,       \* the wall clock read by now_ms()
  cmd,       \* the COMMAND message being handled (NoMessage: none)
  raised,    \* whether apply_command raised on that message
  prev,      \* history: the row that message was applied to
  lock,      \* holder of manager.room_lock(room_id), or None
  rooms,     \* manager._rooms[room_id]: the registered connections
  viewers,   \* manager._viewers[room_id]: connection -> viewer record
  pc,        \* position of each ws_room task
  msg,       \* the message each ws_room task is handling
  out,       \* the message a task is broadcasting
  todo,      \* broadcast: the connections of conns not yet sent to
  dead,      \* broadcast: the connections whose send failed
  recv,      \* per connection: revisions of the STATE messages received
  userOf,    \* the user each connection authenticates as (None: a guest)
  gone,      \* the connections whose peer has closed the socket
  log,       \* history: the commands in the order they acquired the lock
  conns,     \* broadcast: the connections registered when it started
  tried,     \* history: the sends of a task's latest broadcast, [ws, failed]
  drops      \* history: per connection, the inbound messages dropped

vars == <<db, now, cmd, raised, prev, lock, rooms, viewers, pc, msg, out, todo, dead,
          recv, userOf, gone, log, conns, tried, drops>>

hubVars == <<lock, rooms, viewers, pc, msg, out, todo, dead, recv, userOf, gone, log,
             conns, tried, drops>>

None == "None"

\* ------------------------------------------------------------------ bounds
MaxRev == 3        \* commands are accepted while revision < MaxRev
MaxNow == 2        \* the clock runs from 1 to MaxNow
MaxQueue == 2      \* ADD_SONGS is offered while the queue stays within MaxQueue
MaxCmds == 2       \* the hub specification receives at most MaxCmds messages

SongIds == {"A", "B"}
ClientIds == {"c1", "c2"}
Users == {"u1", "u2"}
Conns == {"w1", "w2"}

\* ------------------------------------------------------- payload values
Absent == [k |-> "none", v |-> 0]
Bad == [k |-> "bad", v |-> 0]
Num(n) == [k |-> "num", v |-> n]

\* Python truthiness of song ids: None and "" are falsy
Falsy(id) == id = None \/ id = ""

\* int(x or 0) / float(x or 0.0): raises on a non-numeric value
Raises(x) == x.k = "bad"
OrElse(x, d) == IF x.k = "num" /\ x.v # 0 THEN x.v ELSE d

Max(a, b) == IF a >= b THEN a ELSE b

\* ------------------------------------------------------------ state.py
compute_effective_time(state, at) ==
  LET base_time == state.currentTime
      updated_at == IF state.timeUpdatedAt # 0 THEN state.timeUpdatedAt ELSE at
  IN  IF ~state.isPlaying
        THEN Max(0, base_time)
        ELSE Max(0, base_time + Max(0, at - updated_at))

default_room_state(t) ==
  [ revision |-> 0,
    queue |-> <<>>,
    originalQueue |-> <<>>,
    playMode |-> 0,
    currentSongId |-> None,
    isPlaying |-> FALSE,
    currentTime |-> 0,
    timeUpdatedAt |-> t,
    clockClientId |-> None,
    creatorUserId |-> None,
    creatorName |-> None ]

\* index (0-based) of the first song with that id, -1 if none
find_index(queue, song_id) ==
  IF Falsy(song_id) THEN -1
  ELSE IF \E i \in 1..Len(queue) : queue[i] = song_id
         THEN (CHOOSE i \in 1..Len(queue) :
                 queue[i] = song_id /\ \A j \in 1..(i-1) : queue[j] # song_id) - 1
         ELSE -1

\* the orders random.shuffle may leave a list in
Shuffles(pool) ==
  { [i \in 1..Len(pool) |-> pool[p[i]]] : p \in Permutations(1..Len(pool)) }

RemoveAt(queue, idx) ==
  [i \in 1..(Len(queue) - 1) |-> IF i <= idx THEN queue[i] ELSE queue[i + 1]]

\* the lists _shuffle_keep_current may return
shuffle_keep_current(queue, current_song_id) ==
  IF queue = <<>> THEN {<<>>}
  ELSE LET current_idx == find_index(queue, current_song_id)
       IN  IF current_idx = -1
             THEN Shuffles(queue)
             ELSE { <<queue[current_idx + 1]>> \o rest :
                      rest \in Shuffles(RemoveAt(queue, current_idx)) }

\* a reducer that heals only the empty queue
ensure_current_valid_EmptyOnly(state, t) ==
  IF state.queue = <<>>
    THEN [state EXCEPT !.currentSongId = None, !.isPlaying = FALSE,
                       !.currentTime = 0, !.timeUpdatedAt = t,
                       !.clockClientId = None]
    ELSE state

ensure_current_valid(state, t) ==
  IF state.queue = <<>>
    THEN [state EXCEPT !.currentSongId = None, !.isPlaying = FALSE,
                       !.currentTime = 0, !.timeUpdatedAt = t,
                       !.clockClientId = None]
    ELSE IF find_index(state.queue, state.currentSongId) = -1
           THEN [state EXCEPT !.currentSongId = state.queue[1],
                              !.currentTime = 0, !.timeUpdatedAt = t]
           ELSE state

\* a bump that forgets to count
bump_Forgotten(state) == state

bump(state) == [state EXCEPT !.revision = state.revision + 1]

Ok(state) == [raised |-> FALSE, state |-> state]
Err(state) == [raised |-> TRUE, state |-> state]

\* A result of apply_command: the returned state, or an exception (the state
\* dict it was mutating is then dropped by the caller, main.py 323-330).
Songs(list) == [k |-> "seq", v |-> list]
BadSongs == [k |-> "bad", v |-> <<>>]
Ids(set) == [k |-> "set", v |-> set]
BadIds == [k |-> "bad", v |-> {}]

\* state.py 122-148
AddSongs(state, m, t) ==
  IF m.songs.k = "bad" THEN {Err(state)}
  ELSE
  LET sanitized == m.songs.v
      prev_len == Len(state.queue)
      s1 == [state EXCEPT !.queue = state.queue \o sanitized,
                          !.originalQueue = state.originalQueue \o sanitized]
      idx == find_index(s1.queue, m.playSongId)
      s2 == IF ~Falsy(m.playSongId)
              THEN IF idx # -1
                     THEN [s1 EXCEPT !.currentSongId = s1.queue[idx + 1],
                                     !.currentTime = 0, !.timeUpdatedAt = t,
                                     !.isPlaying = TRUE,
                                     !.clockClientId = m.clientId]
                     ELSE s1
              ELSE IF Falsy(s1.currentSongId) /\ sanitized # <<>>
                     THEN LET s3 == [s1 EXCEPT !.currentSongId = sanitized[1],
                                               !.currentTime = 0,
                                               !.timeUpdatedAt = t]
                          IN  IF m.autoplayIfEmpty /\ prev_len = 0
                                THEN [s3 EXCEPT !.isPlaying = TRUE,
                                                !.clockClientId = m.clientId]
                                ELSE s3
                     ELSE s1
  IN  {Ok(ensure_current_valid(bump(s2), t))}

\* a REMOVE_SONGS that filters queue and leaves originalQueue alone
RemoveSongs_QueueOnly(state, m, t) ==
  IF m.ids.k = "bad" THEN {Err(state)}
  ELSE
  LET Keep(s) == s \notin m.ids.v
      s1 == [state EXCEPT !.queue = SelectSeq(state.queue, Keep)]
  IN  {Ok(ensure_current_valid(bump(s1), t))}

\* state.py 150-156
RemoveSongs(state, m, t) ==
  IF m.ids.k = "bad" THEN {Err(state)}
  ELSE
  LET Keep(s) == s \notin m.ids.v
      s1 == [state EXCEPT !.queue = SelectSeq(state.queue, Keep),
                          !.originalQueue = SelectSeq(state.originalQueue, Keep)]
  IN  {Ok(ensure_current_valid(bump(s1), t))}

\* a PLAY_INDEX that counts a rejected index as a change
PlayIndex_CountsRejected(state, m, t) ==
  IF Raises(m.index) THEN {Err(state)}
  ELSE
  LET idx == OrElse(m.index, 0)
  IN  IF 0 <= idx /\ idx < Len(state.queue)
        THEN {Ok(bump([state EXCEPT !.currentSongId = state.queue[idx + 1],
                                    !.isPlaying = TRUE, !.currentTime = 0,
                                    !.timeUpdatedAt = t,
                                    !.clockClientId = m.clientId]))}
        ELSE {Ok(bump(state))}

\* state.py 158-168
PlayIndex(state, m, t) ==
  IF Raises(m.index) THEN {Err(state)}
  ELSE
  LET idx == OrElse(m.index, 0)
  IN  IF 0 <= idx /\ idx < Len(state.queue)
        THEN {Ok(bump([state EXCEPT !.currentSongId = state.queue[idx + 1],
                                    !.isPlaying = TRUE, !.currentTime = 0,
                                    !.timeUpdatedAt = t,
                                    !.clockClientId = m.clientId]))}
        ELSE {Ok(state)}

\* a PLAY/PAUSE/TOGGLE_PLAY that takes the clock only when nobody owns it
Transport_KeepsOwner(state, m, t, next_is_playing) ==
  IF Raises(m.currentTime) THEN {Err(state)}
  ELSE {Ok(bump([state EXCEPT
          !.isPlaying = next_is_playing,
          !.currentTime = OrElse(m.currentTime, compute_effective_time(state, t)),
          !.timeUpdatedAt = t,
          !.clockClientId = IF state.clockClientId = None THEN m.clientId
                            ELSE state.clockClientId]))}

\* state.py 170-193: PLAY, PAUSE, TOGGLE_PLAY differ in next_is_playing only
Transport(state, m, t, next_is_playing) ==
  IF Raises(m.currentTime) THEN {Err(state)}
  ELSE {Ok(bump([state EXCEPT
          !.isPlaying = next_is_playing,
          !.currentTime = OrElse(m.currentTime, compute_effective_time(state, t)),
          !.timeUpdatedAt = t,
          !.clockClientId = m.clientId]))}

\* state.py 195-200
Seek(state, m, t) ==
  IF Raises(m.time) THEN {Err(state)}
  ELSE {Ok(bump([state EXCEPT !.currentTime = OrElse(m.time, 0),
                              !.timeUpdatedAt = t,
                              !.clockClientId = m.clientId]))}

\* a PROGRESS branch without the clock-owner test
Progress_AnySender(state, m, t) ==
  IF Raises(m.time) THEN {Err(state)}
  ELSE {Ok(bump([state EXCEPT
          !.currentTime = OrElse(m.time, compute_effective_time(state, t)),
          !.timeUpdatedAt = t,
          !.clockClientId = m.clientId]))}

\* state.py 202-210
Progress(state, m, t) ==
  LET clock == state.clockClientId
  IN  IF clock = None \/ clock = m.clientId
        THEN IF Raises(m.time) THEN {Err(state)}
             ELSE {Ok(bump([state EXCEPT
                     !.currentTime = OrElse(m.time, compute_effective_time(state, t)),
                     !.timeUpdatedAt = t,
                     !.clockClientId = m.clientId]))}
        ELSE {Ok(state)}

\* a way out of Shuffle that keeps the shuffled order
LeaveShuffle_KeepOrder(state, prev_mode, original) == state

\* state.py 229-235: leaving shuffle restores the canonical order
LeaveShuffle(state, prev_mode, original) ==
  IF prev_mode = 2 /\ original # <<>>
    THEN LET s1 == [state EXCEPT !.queue = original]
         IN  IF ~Falsy(state.currentSongId)
                /\ find_index(s1.queue, state.currentSongId) = -1
               THEN [s1 EXCEPT !.currentSongId = s1.queue[1]]
               ELSE s1
    ELSE state

\* state.py 212-240
SetPlaymode(state, m, t) ==
  IF Raises(m.playMode) THEN {Err(state)}
  ELSE
  LET mode == OrElse(m.playMode, 0)
      prev_mode == state.playMode
      queue == state.queue
      current_song_id == state.currentSongId
      original == IF mode = 2 /\ prev_mode # 2 /\ state.originalQueue = <<>>
                    THEN queue ELSE state.originalQueue
      Done(s) == Ok(ensure_current_valid(bump([s EXCEPT !.playMode = mode]), t))
  IN  IF mode = prev_mode THEN {Ok(state)}
      ELSE IF mode = 2
        THEN { Done([state EXCEPT !.originalQueue = original, !.queue = q]) :
                 q \in shuffle_keep_current(queue, current_song_id) }
        ELSE {Done(LeaveShuffle(state, prev_mode, original))}

\* a NEXT/PREV that stops at the ends of the queue instead of wrapping
NextPrev_NoWrap(state, m, t) ==
  LET queue == state.queue
      n == Len(queue)
      found == find_index(queue, state.currentSongId)
      current_idx == IF found = -1 THEN 0 ELSE found
      next_idx == IF m.command = "NEXT"
                    THEN (IF current_idx + 1 < n THEN current_idx + 1 ELSE current_idx)
                    ELSE (IF current_idx > 0 THEN current_idx - 1 ELSE 0)
      restart == [state EXCEPT !.currentTime = 0, !.timeUpdatedAt = t,
                               !.isPlaying = TRUE, !.clockClientId = m.clientId]
  IN  IF queue = <<>> THEN {Ok(state)}
      ELSE IF state.playMode = 1 THEN {Ok(bump(restart))}
      ELSE {Ok(bump([restart EXCEPT !.currentSongId = queue[next_idx + 1]]))}

\* state.py 242-271
NextPrev(state, m, t) ==
  LET queue == state.queue
      n == Len(queue)
      found == find_index(queue, state.currentSongId)
      current_idx == IF found = -1 THEN 0 ELSE found
      next_idx == IF m.command = "NEXT" THEN (current_idx + 1) % n
                  ELSE (current_idx - 1 + n) % n
      restart == [state EXCEPT !.currentTime = 0, !.timeUpdatedAt = t,
                               !.isPlaying = TRUE, !.clockClientId = m.clientId]
  IN  IF queue = <<>> THEN {Ok(state)}
      ELSE IF state.playMode = 1 THEN {Ok(bump(restart))}
      ELSE {Ok(bump([restart EXCEPT !.currentSongId = queue[next_idx + 1]]))}

\* state.py 105-274: the results apply_command may end in at time t
apply_command(state, m, t) ==
  CASE m.command = "ADD_SONGS" -> AddSongs(state, m, t)
    [] m.command = "REMOVE_SONGS" -> RemoveSongs(state, m, t)
    [] m.command = "PLAY_INDEX" -> PlayIndex(state, m, t)
    [] m.command = "PLAY" -> Transport(state, m, t, TRUE)
    [] m.command = "PAUSE" -> Transport(state, m, t, FALSE)
    [] m.command = "TOGGLE_PLAY" -> Transport(state, m, t, ~state.isPlaying)
    [] m.command = "SEEK" -> Seek(state, m, t)
    [] m.command = "PROGRESS" -> Progress(state, m, t)
    [] m.command = "SET_PLAYMODE" -> SetPlaymode(state, m, t)
    [] m.command \in {"NEXT", "PREV"} -> NextPrev(state, m, t)
    [] OTHER -> {Ok(state)}

\* ------------------------------------------------------------ messages
\* an inbound message that is a JSON object of type COMMAND; payload keys
\* that are not given are absent
Message(command, clientId) ==
  [ isdict |-> TRUE, type |-> "COMMAND",
    command |-> command, clientId |-> clientId,
    songs |-> Songs(<<>>), playSongId |-> None, autoplayIfEmpty |-> FALSE,
    ids |-> Ids({}), index |-> Absent, currentTime |-> Absent,
    time |-> Absent, playMode |-> Absent ]

NoMessage == Message(None, None)

\* The payloads offered.  Every command and every payload shape is sent by
\* c1; c2 sends the commands whose effect depends on the sender.
Commands ==
  LET c == "c1"
      d == "c2"
  IN  UNION {
        { [Message("ADD_SONGS", c) EXCEPT !.songs = Songs(l),
                                          !.playSongId = o.playSongId,
                                          !.autoplayIfEmpty = o.autoplayIfEmpty] :
            l \in {<<>>, <<"A">>, <<"A", "B">>, <<None>>},
            o \in { [playSongId |-> None, autoplayIfEmpty |-> FALSE],
                    [playSongId |-> None, autoplayIfEmpty |-> TRUE],
                    [playSongId |-> "B", autoplayIfEmpty |-> FALSE],
                    [playSongId |-> "B", autoplayIfEmpty |-> TRUE] } },
        { [Message("ADD_SONGS", c) EXCEPT !.songs = BadSongs] },
        { [Message("REMOVE_SONGS", c) EXCEPT !.ids = i] :
            i \in {Ids({}), Ids({"A"}), Ids({"A", "B"}), Ids({None}), BadIds} },
        { [Message("PLAY_INDEX", c) EXCEPT !.index = n] :
            n \in {Absent, Num(1), Num(-1), Num(MaxQueue), Bad} },
        { [Message("PLAY", c) EXCEPT !.currentTime = n] :
            n \in {Absent, Num(0), Num(3), Num(-1), Bad} },
        { [Message(k, c) EXCEPT !.currentTime = n] :
            k \in {"PAUSE", "TOGGLE_PLAY"}, n \in {Absent, Num(3)} },
        { [Message(k, c) EXCEPT !.time = n] :
            k \in {"SEEK", "PROGRESS"}, n \in {Absent, Num(3), Num(-1), Bad} },
        { [Message("SET_PLAYMODE", c) EXCEPT !.playMode = n] :
            n \in {Absent, Num(1), Num(2), Num(3), Bad} },
        { Message(k, c) : k \in {"NEXT", "PREV", "RESET"} },
        { [Message("ADD_SONGS", d) EXCEPT !.songs = Songs(<<"A">>),
                                          !.autoplayIfEmpty = TRUE],
          Message("PLAY_INDEX", d), Message("PLAY", d), Message("PAUSE", d),
          [Message("SEEK", d) EXCEPT !.time = Num(3)],
          Message("PROGRESS", d),
          [Message("PROGRESS", d) EXCEPT !.time = Num(3)],
          Message("NEXT", d) } }

\* ------------------------------------------------------------- db.py
\* the row upsert_room leaves (db.py 95-106)
upsert_room(revision, state) ==
  [present |-> TRUE, revision |-> revision, state |-> state]

NoRow == [present |-> FALSE, revision |-> 0, state |-> default_room_state(0)]

\* ------------------------------------------------------------ main.py
\* _load_or_create_room (main.py 164-172): the state it returns ...
load_or_create_room(row, t) ==
  IF row.present THEN [row.state EXCEPT !.revision = row.revision]
  ELSE default_room_state(t)

\* ... and the row it leaves
RowAfterLoad(row, t) ==
  IF row.present THEN row
  ELSE upsert_room(default_room_state(t).revision, default_room_state(t))

\* a creator check that forgets the creatorUserId test
NeedsCreator_AnyUser(state, user) == user # None

\* main.py 228-231 and 290-293: the first authenticated viewer becomes creator
NeedsCreator(state, user) == user # None /\ state.creatorUserId = None

UserName(user) == IF user = "u1" THEN "alice" ELSE "bob"

WithCreator(state, user) ==
  [state EXCEPT !.creatorUserId = user, !.creatorName = UserName(user)]

\* the row after the creator check of a state just loaded
RowAfterCreator(row, t, user) ==
  LET state == load_or_create_room(row, t)
  IN  IF NeedsCreator(state, user)
        THEN upsert_room(state.revision, WithCreator(state, user))
        ELSE RowAfterLoad(row, t)

\* main.py 323-330: load, reduce and, unless the reducer raised, persist
RowAfterCommand(row, r) ==
  IF r.raised THEN row ELSE upsert_room(r.state.revision, r.state)

Offered(m) ==
  /\ db.present
  /\ db.revision < MaxRev
  /\ m.command = "ADD_SONGS" => Len(db.state.queue) + Len(m.songs.v) <= MaxQueue

\* ------------------------------------------------------------- actions
\* The room-level specification follows one handler run at a time: a run goes
\* from one suspension point to the next without interleaving, and cmd holds
\* the message of the run that has just executed the command section.
Idle == cmd = NoMessage

Tick ==
  /\ Idle
  /\ now < MaxNow
  /\ now' = now + 1
  /\ UNCHANGED <<db, cmd, raised, prev, hubVars>>

\* GET /api/rooms/{room_id} (main.py 223-232); it takes no lock
StatusQuery(user) ==
  /\ Idle
  /\ db' = RowAfterCreator(db, now, user)
  /\ UNCHANGED <<now, cmd, raised, prev, hubVars>>

\* ws_room, the join section (main.py 287-293), run under the room lock
JoinSection(user) ==
  /\ Idle
  /\ db' = RowAfterCreator(db, now, user)
  /\ UNCHANGED <<now, cmd, raised, prev, hubVars>>

\* ws_room, the command section (main.py 321-330), run under the room lock
Command(m) ==
  /\ Idle
  /\ Offered(m)
  /\ \E r \in apply_command(load_or_create_room(db, now), m, now) :
       /\ db' = RowAfterCommand(db, r)
       /\ raised' = r.raised
  /\ cmd' = m
  /\ prev' = db
  /\ UNCHANGED <<now, hubVars>>

\* ws_room after the command section: the STATE broadcast (main.py 332) or the
\* exception handler (main.py 337-340); the message is done with
Finish ==
  /\ ~Idle
  /\ cmd' = NoMessage
  /\ raised' = FALSE
  /\ prev' = NoRow
  /\ UNCHANGED <<db, now, hubVars>>

\* --------------------------------------------------------------- ws.py
NoOut == [type |-> None, revision |-> 0]
StateMessage(state) == [type |-> "STATE", revision |-> state.revision]
ViewersMessage == [type |-> "VIEWERS", revision |-> 0]

\* ConnectionManager.disconnect (ws.py 24-32)
RoomsWithout(away) == rooms \ away
ViewersWithout(away) ==
  LET Keep(v) == v.ws \notin away IN SelectSeq(viewers, Keep)

\* ConnectionManager.set_viewer (ws.py 34-35): dict assignment keeps the
\* position of an existing key and appends a new one
set_viewer(ws, viewer) ==
  IF \E i \in 1..Len(viewers) : viewers[i].ws = ws
    THEN [i \in 1..Len(viewers) |->
            IF viewers[i].ws = ws THEN viewer ELSE viewers[i]]
    ELSE Append(viewers, viewer)

\* the viewer record ws_room builds (main.py 294-303)
Viewer(ws, u, state) ==
  [ws |-> ws, userId |-> u, isGuest |-> (u = None),
   isCreator |-> (u # None /\ state.creatorUserId = u)]

\* ConnectionManager.get_viewers_snapshot (ws.py 37-51) on the viewer records
\* vs, in the dict's order; creator is <<>> for None, else the one record
get_viewers_snapshot(vs) ==
  LET Flagged(v) == v.isCreator
      Plain(v) == ~v.isCreator
      flagged == SelectSeq(vs, Flagged)
  IN  [ type |-> "VIEWERS",
        creator |-> IF flagged = <<>> THEN <<>> ELSE <<flagged[1]>>,
        viewers |-> SelectSeq(vs, Plain) ]

\* a lock that admits everybody
CanAcquire_Always(w) == TRUE

\* asyncio.Lock: acquire succeeds when nobody holds the lock
CanAcquire(w) == lock = None

\* a lock taken and released by hand, the release skipped by an exception
LockAfterSection_HeldOnError(w, failed) == IF failed THEN w ELSE None

\* async with lock (main.py 288, 322): the lock is released on every way out
\* of the section
LockAfterSection(w, failed) == None

\* a validation that checks the message's shape only
Accepted_AnyObject(m) == m.isdict

\* main.py 310-319: the messages that reach the command section
Accepted(m) ==
  /\ m.isdict
  /\ m.type = "COMMAND"
  /\ ~Falsy(m.clientId)
  /\ ~Falsy(m.command)

\* The commands the hub specification offers
HubCommands ==
  { Message("PLAY", "c1"),
    Message("PROGRESS", "c2"),
    Message("RESET", "c1"),
    [Message("SET_PLAYMODE", "c1") EXCEPT !.playMode = Bad] }

\* ... and the other inbound messages: not a JSON object, not of type
\* COMMAND, without a clientId, with an empty command
HubMalformed ==
  { [Message("PLAY", "c1") EXCEPT !.isdict = FALSE],
    [Message("PLAY", "c1") EXCEPT !.type = "PING"],
    Message("PLAY", None),
    Message("", "c1") }

\* The users the connections of the hub specification authenticate as
HubUsers(w) == IF w = "w1" THEN {"u1"} ELSE {"u1", None}

Waiting == { w \in Conns : pc[w] = "lock" }

RECURSIVE SumDrops(_)
SumDrops(S) ==
  IF S = {} THEN 0
  ELSE LET c == CHOOSE x \in S : TRUE IN drops[c] + SumDrops(S \ {c})

\* the inbound messages the hub has taken so far
Received == Len(log) + Cardinality(Waiting) + SumDrops(Conns)

\* ----------------------------------------------------- ws_room (main.py)
roomVars == <<now, cmd, raised, prev>>

\* main.py 267-284: accept, register, authenticate
Connect(w, u) ==
  /\ pc[w] = "new"
  /\ rooms' = rooms \cup {w}
  /\ userOf' = [userOf EXCEPT ![w] = u]
  /\ pc' = [pc EXCEPT ![w] = "join"]
  /\ UNCHANGED <<db, roomVars, lock, viewers, msg, out, todo, dead, recv, gone, log,
                 conns, tried, drops>>

\* main.py 287-288: async with lock
AcquireJoin(w) ==
  /\ pc[w] = "join"
  /\ CanAcquire(w)
  /\ lock' = w
  /\ pc' = [pc EXCEPT ![w] = "joining"]
  /\ UNCHANGED <<db, roomVars, rooms, viewers, msg, out, todo, dead, recv, userOf, gone,
                 log, conns, tried, drops>>

\* ws.py 54-57: broadcast takes its list of connections; with none it returns
StartBroadcast(w, message, registered) ==
  /\ out' = [out EXCEPT ![w] = message]
  /\ conns' = [conns EXCEPT ![w] = registered]
  /\ todo' = [todo EXCEPT ![w] = registered]
  /\ dead' = [dead EXCEPT ![w] = {}]
  /\ tried' = [tried EXCEPT ![w] = {}]

\* main.py 289-304: the join section, the lock's release, set_viewer and the
\* start of broadcast_viewers (ws.py 66-68, 54-57)
Join(w) ==
  /\ pc[w] = "joining"
  /\ db' = RowAfterCreator(db, now, userOf[w])
  /\ lock' = LockAfterSection(w, FALSE)
  /\ viewers' = set_viewer(w, Viewer(w, userOf[w], db'.state))
  /\ StartBroadcast(w, ViewersMessage, rooms)
  /\ pc' = [pc EXCEPT ![w] = IF rooms = {} THEN "snapshot" ELSE "viewers"]
  /\ UNCHANGED <<roomVars, rooms, msg, recv, userOf, gone, log, drops>>

Broadcasting(w) == pc[w] \in {"viewers", "state", "closing"}

\* a broadcast that gives up at the first failing send
Remaining_StopOnFailure(left, c, failed) == IF failed THEN {} ELSE left \ {c}

\* ws.py 58-62: the loop goes on to the next connection, the send failed or not
Remaining(left, c, failed) == left \ {c}

\* ws.py 58-64: one send_json of the broadcast loop; after the last one the
\* dead connections are disconnected and ws_room runs on to its next
\* suspension point
Send(w, c) ==
  LET failed == c \in gone
      dead1 == IF failed THEN dead[w] \cup {c} ELSE dead[w]
      left == Remaining(todo[w], c, failed)
      last == left = {}
  IN
  /\ Broadcasting(w)
  /\ c \in todo[w]
  /\ todo' = [todo EXCEPT ![w] = left]
  /\ tried' = [tried EXCEPT ![w] = @ \cup {[ws |-> c, failed |-> failed]}]
  /\ recv' = IF ~failed /\ out[w].type = "STATE"
               THEN [recv EXCEPT ![c] = Append(@, out[w].revision)]
               ELSE recv
  /\ IF last
       THEN /\ rooms' = RoomsWithout(dead1)
            /\ viewers' = ViewersWithout(dead1)
            /\ dead' = [dead EXCEPT ![w] = {}]
            /\ out' = [out EXCEPT ![w] = NoOut]
            /\ msg' = [msg EXCEPT ![w] = NoMessage]
            /\ pc' = [pc EXCEPT ![w] = CASE pc[w] = "viewers" -> "snapshot"
                                          [] pc[w] = "state" -> "receive"
                                          [] OTHER -> "closed"]
       ELSE /\ dead' = [dead EXCEPT ![w] = dead1]
            /\ UNCHANGED <<rooms, viewers, out, msg, pc>>
  /\ UNCHANGED <<db, roomVars, lock, userOf, gone, log, conns, drops>>

\* ws_room's exception handlers (main.py 334-340): disconnect, then the start
\* of broadcast_viewers
TornDown(w) ==
  /\ rooms' = RoomsWithout({w})
  /\ viewers' = ViewersWithout({w})
  /\ StartBroadcast(w, ViewersMessage, rooms')
  /\ pc' = [pc EXCEPT ![w] = IF rooms' = {} THEN "closed" ELSE "closing"]

\* main.py 289-293, 337-340: a sqlite3 error inside the join section, before
\* the row is created or (created) at the upsert of the creator
JoinFails(w, created) ==
  /\ pc[w] = "joining"
  /\ created => /\ ~db.present
                /\ NeedsCreator(load_or_create_room(db, now), userOf[w])
  /\ db' = IF created THEN RowAfterLoad(db, now) ELSE db
  /\ lock' = LockAfterSection(w, TRUE)
  /\ TornDown(w)
  /\ UNCHANGED <<roomVars, msg, recv, userOf, gone, log, drops>>

\* main.py 305-306: reload and send the SNAPSHOT
Snapshot(w) ==
  /\ pc[w] = "snapshot"
  /\ db' = RowAfterLoad(db, now)
  /\ IF w \in gone
       THEN TornDown(w)
       ELSE /\ pc' = [pc EXCEPT ![w] = "receive"]
            /\ UNCHANGED <<rooms, viewers, out, todo, dead, conns, tried>>
  /\ UNCHANGED <<roomVars, lock, msg, recv, userOf, gone, log, drops>>

\* main.py 309-321: an inbound message arrives; one that fails the validation
\* is dropped and ws_room waits for the next
Receive(w, m) ==
  /\ pc[w] = "receive"
  /\ w \notin gone
  /\ Received < MaxCmds
  /\ msg' = [msg EXCEPT ![w] = m]
  /\ IF Accepted(m)
       THEN /\ pc' = [pc EXCEPT ![w] = "lock"]
            /\ UNCHANGED drops
       ELSE /\ drops' = [drops EXCEPT ![w] = @ + 1]
            /\ UNCHANGED pc
  /\ UNCHANGED <<db, roomVars, lock, rooms, viewers, out, todo, dead, recv, userOf, gone,
                 log, conns, tried>>

\* main.py 309, 334-336: receive_json raises WebSocketDisconnect
ReceiveDisconnect(w) ==
  /\ pc[w] = "receive"
  /\ w \in gone
  /\ TornDown(w)
  /\ UNCHANGED <<db, roomVars, lock, msg, recv, userOf, gone, log, drops>>

\* main.py 321-322: async with lock
AcquireCommand(w) ==
  /\ pc[w] = "lock"
  /\ CanAcquire(w)
  /\ lock' = w
  /\ log' = Append(log, [ws |-> w, message |-> msg[w], outcome |-> "pending"])
  /\ pc' = [pc EXCEPT ![w] = "locked"]
  /\ UNCHANGED <<db, roomVars, rooms, viewers, msg, out, todo, dead, recv, userOf, gone,
                 conns, tried, drops>>

\* an upsert that is not all-or-nothing: the revision column is written, the
\* state column is not
RowAfterFailedUpsert_Torn(row, r) == [row EXCEPT !.revision = r.state.revision]

\* db.py 95-106, 26-32: upsert_room is one statement, committed only when it
\* succeeded; an error leaves the row as it was
RowAfterFailedUpsert(row, r) == row

\* main.py 323-332: the command section, the lock's release and the start of
\* the STATE broadcast; an exception of the reducer skips the upsert, one of
\* the upsert (failed) skips the broadcast, and both reach the handler at
\* 337-340
Handle(w) ==
  /\ pc[w] = "locked"
  /\ \E r \in apply_command(load_or_create_room(db, now), msg[w], now),
        failed \in BOOLEAN :
       LET outcome == IF r.raised THEN "raised"
                      ELSE IF failed THEN "failed" ELSE "done"
       IN  /\ r.raised => ~failed
           /\ db' = IF failed
                      THEN RowAfterFailedUpsert(RowAfterLoad(db, now), r)
                      ELSE RowAfterCommand(RowAfterLoad(db, now), r)
           /\ lock' = LockAfterSection(w, outcome # "done")
           /\ log' = [log EXCEPT ![Len(log)].outcome = outcome]
           /\ IF outcome # "done"
                THEN TornDown(w)
                ELSE /\ StartBroadcast(w, StateMessage(r.state), rooms)
                     /\ pc' = [pc EXCEPT ![w] = IF rooms = {} THEN "receive" ELSE "state"]
                     /\ UNCHANGED <<rooms, viewers>>
  /\ UNCHANGED <<roomVars, msg, recv, userOf, gone, drops>>

\* the client closes its socket (the hub specification lets w2's client do so)
PeerClose(w) ==
  /\ w = "w2"
  /\ pc[w] # "new"
  /\ w \notin gone
  /\ gone' = gone \cup {w}
  /\ UNCHANGED <<db, roomVars, lock, rooms, viewers, pc, msg, out, todo, dead, recv,
                 userOf, log, conns, tried, drops>>

\* GET /api/rooms/{room_id} (main.py 223-232) while connections are live
HubStatusQuery(u) ==
  /\ db' = RowAfterCreator(db, now, u)
  /\ UNCHANGED <<roomVars, hubVars>>

Init ==
  /\ db = NoRow
  /\ now = 1
  /\ cmd = NoMessage
  /\ raised = FALSE
  /\ prev = NoRow
  /\ lock = None
  /\ rooms = {}
  /\ viewers = <<>>
  /\ pc = [w \in Conns |-> "new"]
  /\ msg = [w \in Conns |-> NoMessage]
  /\ out = [w \in Conns |-> NoOut]
  /\ todo = [w \in Conns |-> {}]
  /\ dead = [w \in Conns |-> {}]
  /\ recv = [w \in Conns |-> <<>>]
  /\ userOf = [w \in Conns |-> None]
  /\ gone = {}
  /\ log = <<>>
  /\ conns = [w \in Conns |-> {}]
  /\ tried = [w \in Conns |-> {}]
  /\ drops = [w \in Conns |-> 0]

Next ==
  \/ Tick
  \/ \E user \in Users \cup {None} : StatusQuery(user)
  \/ \E user \in Users \cup {None} : JoinSection(user)
  \/ \E m \in Commands : Command(m)
  \/ Finish

Spec == Init /\ [][Next]_vars

HubNext ==
  \/ \E w \in Conns : \E u \in HubUsers(w) : Connect(w, u)
  \/ \E w \in Conns : AcquireJoin(w)
  \/ \E w \in Conns : Join(w)
  \/ \E w \in Conns, created \in BOOLEAN : JoinFails(w, created)
  \/ \E w \in Conns, c \in Conns : Send(w, c)
  \/ \E w \in Conns : Snapshot(w)
  \/ \E w \in Conns, m \in HubCommands \cup HubMalformed : Receive(w, m)
  \/ \E w \in Conns : ReceiveDisconnect(w)
  \/ \E w \in Conns : AcquireCommand(w)
  \/ \E w \in Conns : Handle(w)
  \/ \E w \in Conns : PeerClose(w)
  \/ \E u \in {None, "u2"} : HubStatusQuery(u)

HubSpec == Init /\ [][HubNext]_vars

\* the steps of ws_room that touch the lock
LockStep(w) ==
  \/ AcquireJoin(w)
  \/ Join(w)
  \/ \E created \in BOOLEAN : JoinFails(w, created)
  \/ AcquireCommand(w)
  \/ Handle(w)

\* The event loop runs every task that is ready: a task inside a locked
\* section (which has no suspension point) completes it, and a task waiting
\* for a lock that stays free acquires it.
HubFairness == \A w \in Conns : WF_vars(LockStep(w))

HubFairSpec == HubSpec /\ HubFairness

\* ---------------------------------------------------------------- claims
Room == db.state
JustHandled(k) == cmd.command = k /\ ~raised
IdsOf(queue) == { queue[i] : i \in 1..Len(queue) }

\* C1: in every reachable state, an empty queue goes with an absent
\* currentSongId, an absent clockClientId and isPlaying = false.
C1_EmptyQueueIsIdle ==
  (db.present /\ Room.queue = <<>>) =>
    /\ Room.currentSongId = None
    /\ Room.clockClientId = None
    /\ ~Room.isPlaying

\* C2: in every reachable state whose queue is non-empty and holds only songs
\* that carry an id, currentSongId is present and is the id of a queued song.
C2_CurrentSongInQueue ==
  (db.present /\ Room.queue # <<>> /\ None \notin IdsOf(Room.queue)) =>
    /\ ~Falsy(Room.currentSongId)
    /\ Room.currentSongId \in IdsOf(Room.queue)

\* C2 witness: REMOVE_SONGS has just removed the current song A and left B.
C2_Witness ==
  /\ JustHandled("REMOVE_SONGS")
  /\ prev.state.currentSongId = "A"
  /\ Room.queue = <<"B">>
  /\ Room.currentSongId = "B"

WithoutRevision(state) == [state EXCEPT !.revision = 0]

\* C3: the persisted revision is 0 when the row is created, no step (command,
\* join, status query) decreases it, every step changes it by 0 or +1, and a
\* command that changes any other field of the room state increases it by 1.
C3_RevisionSteps ==
  [][ /\ (~db.present /\ db'.present) => db'.revision = 0
      /\ db'.revision \in {db.revision, db.revision + 1}
      /\ (Idle /\ ~Idle' /\ WithoutRevision(db'.state) # WithoutRevision(db.state))
           => db'.revision = db.revision + 1 ]_vars

\* C3 witness: commands, a command that left the state as it was, and the
\* creator written by a join or a status query, with the revision at 2.
C3_Witness ==
  /\ db.revision = 2
  /\ Room.creatorUserId # None
  /\ cmd.command = "PROGRESS"
  /\ prev = db

\* C7: once the persisted creatorUserId is set, no step changes it or
\* creatorName.
C7_CreatorSetOnce ==
  [][ (db.present /\ Room.creatorUserId # None) =>
        /\ db'.state.creatorUserId = Room.creatorUserId
        /\ db'.state.creatorName = Room.creatorName ]_vars

\* C7 witness: the creator is u1 and commands have been handled since.
C7_Witness ==
  /\ Room.creatorUserId = "u1"
  /\ Room.creatorName = "alice"
  /\ prev.state.creatorUserId = "u1"
  /\ db.revision = MaxRev

\* C8: a PROGRESS whose sender differs from a present clockClientId leaves the
\* row as it was; a PROGRESS from the owner, or with no owner, is accepted (it
\* raises on a time of the wrong kind, or else it stamps the time, makes the
\* sender the owner and bumps the revision).
C8_ProgressOwnerOnly ==
  [][ (Idle /\ cmd'.command = "PROGRESS") =>
        IF Room.clockClientId \notin {None, cmd'.clientId}
          THEN db' = db /\ ~raised'
          ELSE \/ raised' /\ Raises(cmd'.time)
               \/ /\ db'.revision = db.revision + 1
                  /\ db'.state.clockClientId = cmd'.clientId
                  /\ db'.state.timeUpdatedAt = now
                  /\ db'.state.currentTime =
                       OrElse(cmd'.time, compute_effective_time(Room, now)) ]_vars

\* C8 witness: a PROGRESS of c2 has just been rejected, c1 owning the clock.
C8_Witness ==
  /\ JustHandled("PROGRESS")
  /\ cmd.clientId = "c2"
  /\ prev.state.clockClientId = "c1"
  /\ db = prev

\* C9: a SET_PLAYMODE that leaves Shuffle sets queue to originalQueue as it
\* stood in Shuffle mode (no ADD_SONGS/REMOVE_SONGS in between), element by
\* element, whatever permutation the shuffle picked.
C9_ShuffleRoundTrip ==
  [][ ( /\ Idle
        /\ cmd'.command = "SET_PLAYMODE"
        /\ ~raised'
        /\ Room.playMode = 2
        /\ db'.state.playMode # 2 ) =>
      db'.state.queue = Room.originalQueue ]_vars

\* C9 witness: Shuffle had reordered the queue and leaving it restored the
\* order of originalQueue.
C9_Witness ==
  /\ JustHandled("SET_PLAYMODE")
  /\ prev.state.playMode = 2
  /\ prev.state.queue = <<"B", "A">>
  /\ prev.state.originalQueue = <<"A", "B">>
  /\ Room.playMode # 2
  /\ Room.queue = <<"A", "B">>

\* C10: apply_command never ends in an exception, whatever the payload.
C10_ReducerNeverRaises == ~raised

NonDecreasing(q) == \A i \in 1..(Len(q) - 1) : q[i] <= q[i + 1]

\* C4: the revisions of the STATE messages a connection receives never go
\* backwards: every connection sees the commands' results in the order in
\* which the commands were applied.
C4_StatesInOrderOfApplication == \A c \in Conns : NonDecreasing(recv[c])

InSection == { w \in Conns : pc[w] \in {"joining", "locked"} }

WithoutCreator(state) == [state EXCEPT !.creatorUserId = None, !.creatorName = None]

\* the state after reducing the first n commands of the log, one at a time,
\* from the default state (a command on which the reducer raises, or whose
\* upsert fails, persists nothing)
RECURSIVE Replay(_)
Replay(n) ==
  IF n = 0 THEN default_room_state(now)
  ELSE LET r == CHOOSE x \in apply_command(Replay(n - 1), log[n].message, now) : TRUE
       IN  IF r.raised \/ log[n].outcome = "failed" THEN Replay(n - 1) ELSE r.state

\* C5: the lock-held sections never overlap (at most one task is inside, and
\* it is the lock's holder), and the persisted state is the result of reducing
\* the commands one at a time in the order they acquired the lock (the
\* command whose section is still running not yet included).
C5_SerialisedByLock ==
  /\ Cardinality(InSection) <= 1
  /\ \A w \in InSection : lock = w
  /\ db.present =>
       WithoutCreator(load_or_create_room(db, now)) =
         WithoutCreator(Replay(Len(log) - Cardinality({w \in Conns : pc[w] = "locked"})))

\* C5 witness: two commands of different connections have gone through the
\* lock and completed, both changing the state.
C5_Witness ==
  /\ Len(log) = 2
  /\ log[1].ws # log[2].ws
  /\ db.revision = 2
  /\ \A w \in Conns : pc[w] # "locked"

\* C6: every step that writes the room row is taken by the task that holds
\* the room lock.
C6_WritesHoldTheLock ==
  [][ db' # db =>
        \E w \in Conns : lock = w /\ pc[w] \in {"joining", "locked"} /\ pc'[w] # pc[w]
    ]_vars

KnownCommands ==
  {"ADD_SONGS", "REMOVE_SONGS", "PLAY_INDEX", "PLAY", "PAUSE", "TOGGLE_PLAY",
   "SEEK", "PROGRESS", "SET_PLAYMODE", "NEXT", "PREV"}

\* the cases the reducer is to treat as no-ops
NoOpCase(state, m) ==
  \/ m.command \notin KnownCommands
  \/ /\ m.command = "PLAY_INDEX"
     /\ ~Raises(m.index)
     /\ ~(0 <= OrElse(m.index, 0) /\ OrElse(m.index, 0) < Len(state.queue))
  \/ /\ m.command = "SET_PLAYMODE"
     /\ ~Raises(m.playMode)
     /\ OrElse(m.playMode, 0) = state.playMode
  \/ m.command \in {"NEXT", "PREV"} /\ state.queue = <<>>

\* C15: an unknown command name, a PLAY_INDEX whose index is outside
\* 0..len(queue)-1, a SET_PLAYMODE with the current mode and a NEXT/PREV on an
\* empty queue do not raise and leave every field of the state, revision
\* included, as it was.
C15_NoOpsChangeNothing ==
  [][ (Idle /\ ~Idle' /\ NoOpCase(Room, cmd')) => (db' = db /\ ~raised') ]_vars

\* C15 witness: SET_PLAYMODE LoopOne has just been handled in LoopOne mode,
\* after earlier commands, and the row is as it was.
C15_Witness ==
  /\ JustHandled("SET_PLAYMODE")
  /\ cmd.playMode = Num(1)
  /\ prev.state.playMode = 1
  /\ prev.revision > 0
  /\ db = prev

\* C17: in every reachable state currentTime is >= 0, whatever time the
\* payloads carried.
C17_CurrentTimeNonNegative == db.present => Room.currentTime >= 0

\* C18: in every reachable state playMode is LoopAll (0), LoopOne (1) or
\* Shuffle (2), whatever integer a SET_PLAYMODE payload carried.
C18_PlayModeIsEnum == db.present => Room.playMode \in {0, 1, 2}

\* C19: PLAY, PAUSE and TOGGLE_PLAY set isPlaying to true, false and the
\* negation of its previous value, stamp timeUpdatedAt = now, and set
\* currentTime to the supplied value whenever one is supplied (0 included),
\* to the effective position at now only when none is.
C19_TransportSemantics ==
  [][ ( /\ Idle
        /\ cmd'.command \in {"PLAY", "PAUSE", "TOGGLE_PLAY"}
        /\ ~raised' ) =>
      /\ db'.state.isPlaying = CASE cmd'.command = "PLAY" -> TRUE
                                  [] cmd'.command = "PAUSE" -> FALSE
                                  [] OTHER -> ~Room.isPlaying
      /\ db'.state.timeUpdatedAt = now
      /\ db'.state.currentTime =
           IF cmd'.currentTime.k = "num" THEN cmd'.currentTime.v
           ELSE compute_effective_time(Room, now) ]_vars

\* C20: after every PLAY, PAUSE, TOGGLE_PLAY and SEEK, and after every
\* PLAY_INDEX, NEXT and PREV that changes the state, clockClientId is the
\* sender's clientId whoever owned the clock before; a PROGRESS that changes
\* the state leaves clockClientId equal to its sender, never absent.
C20_ClockGoesToSender ==
  [][ ( /\ Idle /\ ~Idle' /\ ~raised'
        /\ \/ cmd'.command \in {"PLAY", "PAUSE", "TOGGLE_PLAY", "SEEK"}
           \/ cmd'.command \in {"PLAY_INDEX", "NEXT", "PREV", "PROGRESS"} /\ db' # db ) =>
      /\ db'.state.clockClientId = cmd'.clientId
      /\ db'.state.clockClientId # None ]_vars

\* C20 witness: c2 has just paused a room whose clock c1 owned, and owns it.
C20_Witness ==
  /\ JustHandled("PAUSE")
  /\ cmd.clientId = "c2"
  /\ prev.state.clockClientId = "c1"
  /\ Room.clockClientId = "c2"

Attempted(sends) == { t.ws : t \in sends }
Failing(sends) == { t.ws : t \in { x \in sends : x.failed } }
Registered(vs) == { vs[i].ws : i \in 1..Len(vs) }

\* C11: a broadcast takes the connections registered when it starts; when it
\* ends it has attempted a send to each of them, whichever sends failed; it
\* ends by returning to its caller (the exception handler is not entered); and
\* it has removed exactly the connections whose send failed, and their viewer
\* records, from the room.
C11_BroadcastIsolatesFailures ==
  [][ \A w \in Conns :
        /\ (~Broadcasting(w) /\ Broadcasting(w)') => conns'[w] = rooms'
        /\ (Broadcasting(w) /\ todo[w] # {} /\ todo'[w] = {}) =>
             /\ Attempted(tried'[w]) = conns[w]
             /\ pc'[w] = CASE pc[w] = "viewers" -> "snapshot"
                           [] pc[w] = "state" -> "receive"
                           [] OTHER -> "closed"
             /\ rooms' = rooms \ Failing(tried'[w])
             /\ viewers' = SelectSeq(viewers, LAMBDA v : v.ws \notin Failing(tried'[w]))
    ]_vars

\* C11 witness: w1's STATE broadcast to w1 and w2 has ended; the send to w2
\* failed, w1 received the message and only w2 was removed.
C11_Witness ==
  /\ pc["w1"] = "receive"
  /\ conns["w1"] = {"w1", "w2"}
  /\ tried["w1"] = {[ws |-> "w1", failed |-> FALSE], [ws |-> "w2", failed |-> TRUE]}
  /\ recv["w1"] # <<>>
  /\ rooms = {"w1"}

\* C12: the lock's holder is always a task inside the join or command section
\* (never one sending a broadcast or waiting for a message); a held lock is
\* eventually released, whichever way the section ends; and a task waiting
\* for the lock eventually gets it.
C12_LockHeldOnlyInSection ==
  /\ [](\A w \in Conns : lock = w => pc[w] \in {"joining", "locked"})
  /\ \A w \in Conns : (lock = w) ~> (lock = None)
  /\ \A w \in Conns : (pc[w] = "join") ~> (pc[w] = "joining")
  /\ \A w \in Conns : (pc[w] = "lock") ~> (pc[w] = "locked")

\* C12 witness: a command section ended in an error (of the reducer or of the
\* upsert), the lock was released, and the other connection's command, which
\* came after it, went through the lock.
C12_Witness ==
  /\ Len(log) = 2
  /\ log[1].outcome \in {"raised", "failed"}
  /\ log[2].outcome = "done"
  /\ log[1].ws # log[2].ws
  /\ lock = None

\* C13: when the upsert of a command's result fails, the persisted row stays
\* the row stored before the command, the task starts no STATE broadcast, and
\* the sender is removed from the connection set and the viewer map while
\* every other connection stays registered.
C13_FailedUpsertKeepsTheRow ==
  [][ \A w \in Conns :
        ( /\ pc[w] = "locked"
          /\ pc'[w] # "locked"
          /\ log'[Len(log')].outcome = "failed" ) =>
          /\ db' = db
          /\ out'[w].type # "STATE"
          /\ recv' = recv
          /\ pc'[w] \in {"closing", "closed"}
          /\ rooms' = rooms \ {w}
          /\ Registered(viewers') = Registered(viewers) \ {w}
    ]_vars

\* C13 witness: the second command, a PLAY, failed at the upsert: the row is
\* still the first command's, and the sender is gone while the other
\* connection is registered.
C13_Witness ==
  /\ Len(log) = 2
  /\ log[1].outcome = "done"
  /\ log[2].outcome = "failed"
  /\ log[2].message.command = "PLAY"
  /\ db.revision = 1
  /\ rooms = Conns \ {log[2].ws}

\* C14: every well-formed COMMAND whose upsert does not fail, no-ops included,
\* leaves its resulting state persisted and starts one STATE broadcast carrying
\* it to every connection registered at that moment.
C14_StateAfterEveryCommand ==
  [][ \A w \in Conns :
        ( /\ pc[w] = "locked"
          /\ pc'[w] # "locked"
          /\ log'[Len(log')].outcome # "failed" ) =>
          /\ out'[w] = StateMessage(load_or_create_room(db', now))
          /\ conns'[w] = rooms
          /\ todo'[w] = rooms
          /\ rooms' = rooms
    ]_vars

\* the inbound messages the validation is to reject
Malformed(m) ==
  \/ ~m.isdict
  \/ m.type # "COMMAND"
  \/ m.clientId \in {None, ""}
  \/ m.command \in {None, ""}

\* C16: a malformed inbound message is dropped: the task goes back to waiting
\* for a message without asking for the lock, the row is not changed, nothing
\* is broadcast, and the connection stays registered.
C16_MalformedIsDropped ==
  [][ \A w \in Conns :
        ( /\ pc[w] = "receive"
          /\ pc'[w] = "lock" \/ drops'[w] # drops[w]
          /\ Malformed(msg'[w]) ) =>
          /\ pc'[w] = "receive"
          /\ lock' = lock
          /\ db' = db
          /\ out' = out /\ todo' = todo /\ recv' = recv
          /\ rooms' = rooms /\ viewers' = viewers
    ]_vars

\* C16 witness: w1 dropped a malformed message, stayed registered, and its
\* next message, a command, has reached the command section.
C16_Witness ==
  /\ drops["w1"] = 1
  /\ Len(log) = 1
  /\ log[1].ws = "w1"
  /\ pc["w1"] = "locked"
  /\ "w1" \in rooms

\* position (from 0) of the first queued song that has the given id
FirstIndex(queue, id) ==
  (CHOOSE i \in 1..Len(queue) :
     queue[i] = id /\ \A j \in 1..(i - 1) : queue[j] # id) - 1

\* C21: on a non-empty queue whose current song is queued at index i (its
\* first position), NEXT outside LoopOne makes the song at (i+1) mod n current
\* and PREV the song at (i-1) mod n; in LoopOne both leave currentSongId as it
\* is; in all these cases currentTime becomes 0, isPlaying true, and the
\* revision grows by 1.
C21_NextPrevWrapAround ==
  [][ ( /\ Idle
        /\ cmd'.command \in {"NEXT", "PREV"}
        /\ Room.queue # <<>>
        /\ ~Falsy(Room.currentSongId)
        /\ Room.currentSongId \in IdsOf(Room.queue) ) =>
      LET n == Len(Room.queue)
          i == FirstIndex(Room.queue, Room.currentSongId)
          j == IF cmd'.command = "NEXT" THEN (i + 1) % n ELSE (i - 1 + n) % n
      IN  /\ ~raised'
          /\ db'.state.currentSongId =
               IF Room.playMode = 1 THEN Room.currentSongId ELSE Room.queue[j + 1]
          /\ db'.state.currentTime = 0
          /\ db'.state.isPlaying
          /\ db'.revision = db.revision + 1 ]_vars

\* C21 witness: NEXT on the last song of [A, B] has just made A current.
C21_Witness ==
  /\ JustHandled("NEXT")
  /\ prev.state.queue = <<"A", "B">>
  /\ prev.state.currentSongId = "B"
  /\ prev.state.playMode # 1
  /\ Room.currentSongId = "A"

\* C22: ADD_SONGS with at least one song appends the songs to queue and
\* originalQueue and bumps the revision; if playSongId names an added song,
\* that song becomes current with currentTime 0, isPlaying true and the sender
\* as clock owner; in every other case, when there was no current song, the
\* first new song becomes current with currentTime 0 and, if the queue was
\* empty and autoplayIfEmpty was requested, isPlaying becomes true and the
\* sender the clock owner.
C22_AddSongs ==
  [][ ( /\ Idle
        /\ cmd'.command = "ADD_SONGS"
        /\ cmd'.songs.k = "seq"
        /\ cmd'.songs.v # <<>> ) =>
      LET songs == cmd'.songs.v
          after == db'.state
      IN  /\ ~raised'
          /\ after.queue = Room.queue \o songs
          /\ after.originalQueue = Room.originalQueue \o songs
          /\ db'.revision = db.revision + 1
          /\ IF ~Falsy(cmd'.playSongId) /\ cmd'.playSongId \in IdsOf(songs)
               THEN /\ after.currentSongId = cmd'.playSongId
                    /\ after.currentTime = 0
                    /\ after.isPlaying
                    /\ after.clockClientId = cmd'.clientId
               ELSE Falsy(Room.currentSongId) =>
                      /\ after.currentSongId = songs[1]
                      /\ after.currentTime = 0
                      /\ (Room.queue = <<>> /\ cmd'.autoplayIfEmpty) =>
                           /\ after.isPlaying
                           /\ after.clockClientId = cmd'.clientId ]_vars

\* C23: the snapshot of the room's viewer records lists every record exactly
\* once, as the creator or in the viewers list, also when several connections
\* are flagged isCreator.
C23_SnapshotPartitionsViewers ==
  LET snap == get_viewers_snapshot(viewers)
      listed == snap.creator \o snap.viewers
  IN  \A i \in 1..Len(viewers) :
        Cardinality({ j \in 1..Len(listed) : listed[j] = viewers[i] }) = 1

Count(queue, id) == Cardinality({ i \in 1..Len(queue) : queue[i] = id })

SameMultiset(a, b) ==
  /\ Len(a) = Len(b)
  /\ \A id \in IdsOf(a) \cup IdsOf(b) : Count(a, id) = Count(b, id)

\* C24: in every reachable state queue and originalQueue hold the same
\* multiset of song ids; outside Shuffle mode they are the same sequence; and
\* right after a SET_PLAYMODE that entered Shuffle with a current song, the
\* first element of queue is that song.
C24_QueueMatchesOriginal ==
  db.present =>
    /\ SameMultiset(Room.queue, Room.originalQueue)
    /\ Room.playMode # 2 => Room.queue = Room.originalQueue
    /\ ( /\ JustHandled("SET_PLAYMODE")
         /\ prev.state.playMode # 2
         /\ Room.playMode = 2
         /\ ~Falsy(prev.state.currentSongId)
         /\ prev.state.currentSongId \in IdsOf(prev.state.queue) ) =>
           /\ Room.queue[1] = prev.state.currentSongId
           /\ Room.currentSongId = prev.state.currentSongId

\* C24 witness: entering Shuffle with B current has just turned [A, B] into
\* [B, A], originalQueue staying [A, B].
C24_Witness ==
  /\ JustHandled("SET_PLAYMODE")
  /\ prev.state.playMode # 2
  /\ prev.state.queue = <<"A", "B">>
  /\ prev.state.currentSongId = "B"
  /\ Room.playMode = 2
  /\ Room.queue = <<"B", "A">>
  /\ Room.originalQueue = <<"A", "B">>
====
